---- MODULE Spec2Model ----
(***************************************************************************)
(* llm-benchmark: the Single-Run Executor (run_benchmark), the Statistics  *)
(* Converter, the Aggregator, the Model Enumerator (src/benchmark.py) and  *)
(* the Job Tracker of the HTTP service (src/backend/api.py).               *)
(*                                                                         *)
(* Python values are modelled as follows.                                  *)
(*   - a dict / pydantic object is a record; a key that is absent is       *)
(*     absent from the record's DOMAIN; {} is the empty function <<>>;     *)
(*   - an exception leaving a function is the record [exc |-> name,        *)
(*     msg |-> str(e)];                                                    *)
(*   - None is the record [none |-> TRUE] where a value is an object, and  *)
(*     the string "None" where the value is a string or a timestamp;       *)
(*   - a float that the code obtains by true division is the exact         *)
(*     fraction [num, den] in lowest terms (rounding is not modelled), and *)
(*     a true division by zero raises ZeroDivisionError as in Python.      *)
(***************************************************************************)
EXTENDS Integers, Sequences, FiniteSets, TLC

VARIABLES
    benchmark_results,  \* api.py:59   the registry: job id -> job dict
    nextId,             \* api.py:133  uuid4(): ids are handed out fresh, in order
    task,               \* api.py:149  job id -> its background task (position and locals)
    deleted,            \* history: the ids removed by delete_benchmark
    ex,                 \* one call of run_benchmark: inputs, collaborator reply, outcome
    ag,                 \* one call of average_stats: inputs and outcome
    cli                 \* one run of main: arguments, position, locals and outcome

vars == <<benchmark_results, nextId, task, deleted, ex, ag, cli>>

(***************************************************************************)
(* Bounds of the model                                                     *)
(***************************************************************************)
MaxJobs == 2        \* jobs created in the multi-job specification Spec
MaxPrompts == 2     \* prompts of a request in the single-job specification SpecJob
MaxRuns == 3        \* records handed to average_stats in SpecAgg

(***************************************************************************)
(* Python arithmetic                                                       *)
(***************************************************************************)
RECURSIVE gcd(_, _)
gcd(a, b) == IF b = 0 THEN a ELSE gcd(b, a % b)

\* the float n / d for integers n >= 0, d > 0, in lowest terms
Float(n, d) == LET g == gcd(n, d) IN [num |-> n \div g, den |-> d \div g]

Raised(r) == "exc" \in DOMAIN r
IsNone(r) == "none" \in DOMAIN r
None == [none |-> TRUE]

\* x / y of Python for ints x >= 0, y >= 0
IntDiv(x, y) ==
    IF y = 0 THEN [exc |-> "ZeroDivisionError", msg |-> "division by zero"]
    ELSE Float(x, y)

\* x / y of Python for an int x >= 0 and a float y >= 0
TrueDiv(x, y) ==
    IF y.num = 0 THEN [exc |-> "ZeroDivisionError", msg |-> "float division by zero"]
    ELSE LET g == gcd(x, y.num)
         IN Float((x \div g) * y.den, y.num \div g)

NANOS == 1000000000

nanosec_to_sec(nanosec) == Float(nanosec, NANOS)

(***************************************************************************)
(* Response Model (benchmark.py:17-51)                                     *)
(***************************************************************************)
validate_prompt_eval_count(value) == IF value = -1 THEN 0 ELSE value

MessageFields == {"role", "content"}
RequiredFields == {"model", "created_at", "message", "done", "total_duration",
                   "prompt_eval_duration", "eval_count", "eval_duration"}

ValidationError == [exc |-> "ValidationError", msg |-> "validation error for OllamaResponse"]

\* OllamaResponse(**d) / OllamaResponse.model_validate(d): a required field that
\* is missing raises ValidationError; load_duration defaults to 0 and
\* prompt_eval_count to -1, which the validator turns into 0.
OllamaResponse(d) ==
    IF ~(RequiredFields \subseteq DOMAIN d) THEN ValidationError
    ELSE IF ~(MessageFields \subseteq DOMAIN d.message) THEN ValidationError
    ELSE [model |-> d.model,
          created_at |-> d.created_at,
          message |-> [role |-> d.message.role, content |-> d.message.content],
          done |-> d.done,
          total_duration |-> d.total_duration,
          load_duration |-> IF "load_duration" \in DOMAIN d THEN d.load_duration ELSE 0,
          prompt_eval_count |-> validate_prompt_eval_count(
              IF "prompt_eval_count" \in DOMAIN d THEN d.prompt_eval_count ELSE -1),
          prompt_eval_duration |-> d.prompt_eval_duration,
          eval_count |-> d.eval_count,
          eval_duration |-> d.eval_duration]

(***************************************************************************)
(* Single-Run Executor (benchmark.py:54-104)                               *)
(*                                                                         *)
(* The collaborator's answer to ollama.chat is the input `reply`:          *)
(*   [kind |-> "raise"]                 chat raises (connection error)     *)
(*   [kind |-> "value", value |-> d]    chat returns d (a dict, {} or None)*)
(*   [kind |-> "stream", chunks |-> s, fails |-> b]                        *)
(*        chat returns an iterator that yields the chunks s and then       *)
(*        stops (b = FALSE) or raises (b = TRUE).                          *)
(* The outcome is [calls |-> chat invocations, ret |-> value or exc].      *)
(***************************************************************************)
UserMessages(prompt) == <<[role |-> "user", content |-> prompt]>>

\* benchmark.py:66-75: the keyword arguments of the streaming call
StreamingCall(model_name, prompt) ==
    [model |-> model_name, messages |-> UserMessages(prompt), stream |-> TRUE]

\* benchmark.py:84-92: the keyword arguments of the non-streaming call
PlainCall(model_name, prompt) ==
    [model |-> model_name, messages |-> UserMessages(prompt)]

\* `not last_element`: None and the empty dict are falsy
Falsy(v) == IsNone(v) \/ DOMAIN v = {}

\* benchmark.py:76-78: chunk["message"]["content"] of every chunk is printed
ChunkPrintable(chunk) ==
    "message" \in DOMAIN chunk /\ "content" \in DOMAIN chunk.message

\* benchmark.py:97-104
Materialize(last_element) ==
    IF Falsy(last_element) THEN None ELSE OllamaResponse(last_element)

run_benchmark(model_name, prompt, verbose, reply) ==
    IF verbose
    THEN [calls |-> <<StreamingCall(model_name, prompt)>>,
          ret |-> IF reply.kind = "raise" THEN None
                  ELSE IF \E i \in 1..Len(reply.chunks) : ~ChunkPrintable(reply.chunks[i])
                       THEN None
                  ELSE IF reply.fails THEN None
                  ELSE IF reply.chunks = <<>> THEN None
                  ELSE Materialize(reply.chunks[Len(reply.chunks)])]
    ELSE [calls |-> <<PlainCall(model_name, prompt)>>,
          ret |-> IF reply.kind = "raise" THEN None
                  ELSE Materialize(reply.value)]

(***************************************************************************)
(* Statistics Converter (api.py:90-109, benchmark.py:114-131)              *)
(***************************************************************************)
ollama_response_to_stats(r) ==
    LET prompt_ts == TrueDiv(r.prompt_eval_count, nanosec_to_sec(r.prompt_eval_duration))
        response_ts == TrueDiv(r.eval_count, nanosec_to_sec(r.eval_duration))
        total_ts == TrueDiv(r.prompt_eval_count + r.eval_count,
                            nanosec_to_sec(r.prompt_eval_duration + r.eval_duration))
    IN  IF Raised(prompt_ts) THEN prompt_ts
        ELSE IF Raised(response_ts) THEN response_ts
        ELSE IF Raised(total_ts) THEN total_ts
        ELSE [model |-> r.model,
              prompt_eval_ts |-> prompt_ts,
              response_ts |-> response_ts,
              total_ts |-> total_ts,
              prompt_tokens |-> r.prompt_eval_count,
              response_tokens |-> r.eval_count,
              model_load_time |-> nanosec_to_sec(r.load_duration),
              prompt_eval_time |-> nanosec_to_sec(r.prompt_eval_duration),
              response_time |-> nanosec_to_sec(r.eval_duration),
              total_time |-> nanosec_to_sec(r.total_duration)]

\* the three rates inference_stats prints, or the exception it raises
inference_stats(r) ==
    LET prompt_ts == TrueDiv(r.prompt_eval_count, nanosec_to_sec(r.prompt_eval_duration))
        response_ts == TrueDiv(r.eval_count, nanosec_to_sec(r.eval_duration))
        total_ts == TrueDiv(r.prompt_eval_count + r.eval_count,
                            nanosec_to_sec(r.prompt_eval_duration + r.eval_duration))
    IN  IF Raised(prompt_ts) THEN prompt_ts
        ELSE IF Raised(response_ts) THEN response_ts
        ELSE IF Raised(total_ts) THEN total_ts
        ELSE [prompt_ts |-> prompt_ts, response_ts |-> response_ts, total_ts |-> total_ts]

(***************************************************************************)
(* Aggregator (benchmark.py:153-177)                                       *)
(***************************************************************************)
AttributeError == [exc |-> "AttributeError", msg |-> "'NoneType' object has no attribute"]

RECURSIVE Sum(_, _)
\* sum(r.<field> for r in responses)
Sum(responses, field) ==
    IF responses = <<>> THEN 0 ELSE Head(responses)[field] + Sum(Tail(responses), field)

\* a synthetic record that carries the first run's total_duration
Synthetic_FirstTotal(responses) ==
    OllamaResponse(
        [model |-> responses[1].model,
         created_at |-> "now",
         message |-> [role |-> "system",
                      content |-> <<"Average stats across", Len(responses), "runs">>],
         done |-> TRUE,
         total_duration |-> responses[1].total_duration,
         load_duration |-> Sum(responses, "load_duration"),
         prompt_eval_count |-> Sum(responses, "prompt_eval_count"),
         prompt_eval_duration |-> Sum(responses, "prompt_eval_duration"),
         eval_count |-> Sum(responses, "eval_count"),
         eval_duration |-> Sum(responses, "eval_duration")])

\* benchmark.py:161-175: the synthetic record
Synthetic(responses) ==
    OllamaResponse(
        [model |-> responses[1].model,
         created_at |-> "now",
         message |-> [role |-> "system",
                      content |-> <<"Average stats across", Len(responses), "runs">>],
         done |-> TRUE,
         total_duration |-> Sum(responses, "total_duration"),
         load_duration |-> Sum(responses, "load_duration"),
         prompt_eval_count |-> Sum(responses, "prompt_eval_count"),
         prompt_eval_duration |-> Sum(responses, "prompt_eval_duration"),
         eval_count |-> Sum(responses, "eval_count"),
         eval_duration |-> Sum(responses, "eval_duration")])

\* The function returns None; what it does is in the outcome:
\*   [warning |-> ...]               nothing to average, nothing computed
\*   [exc |-> ...]                   an attribute of a None entry was read
\*   [res |-> record, printed |-> rates or the exception of inference_stats]
average_stats(responses) ==
    IF Len(responses) = 0 THEN [warning |-> "No stats to average"]
    ELSE IF \E i \in 1..Len(responses) : IsNone(responses[i]) THEN AttributeError
    ELSE LET res == Synthetic(responses)
         IN  [res |-> res, printed |-> inference_stats(res)]

(***************************************************************************)
(* Model Enumerator (benchmark.py:180-195)                                 *)
(*                                                                         *)
(* The collaborator's answer to ollama.list is the input `listing`:        *)
(*   [kind |-> "raise"]               list raises (service unreachable)    *)
(*   [kind |-> "value", value |-> d]  list returns the dict d              *)
(* The outcome is [names |-> sequence] or the exception that escapes.      *)
(***************************************************************************)
RECURSIVE Names(_)
Names(models) ==
    IF models = <<>> THEN <<>> ELSE <<Head(models).name>> \o Names(Tail(models))

get_benchmark_models(skip_models, listing) ==
    IF listing.kind = "raise" THEN [names |-> <<>>]
    ELSE LET models == IF "models" \in DOMAIN listing.value
                       THEN listing.value.models ELSE <<>>
         IN  IF \E i \in 1..Len(models) : "name" \notin DOMAIN models[i]
             THEN [exc |-> "KeyError", msg |-> "'name'"]
             ELSE [names |-> SelectSeq(Names(models), LAMBDA m : m \notin skip_models)]

(***************************************************************************)
(* Job Tracker (api.py:130-231)                                            *)
(***************************************************************************)
NoneStr == "None"

\* api.py:136-146: BenchmarkResult(...).dict()
BenchmarkResult(benchmark_id) ==
    [benchmark_id |-> benchmark_id,
     status |-> "running",
     progress |-> Float(0, 1),
     models_tested |-> <<>>,
     current_model |-> NoneStr,
     results |-> <<>>,
     error_message |-> NoneStr,
     created_at |-> "now",
     completed_at |-> NoneStr]

\* a final update that writes a status outside the three of BenchmarkResult
CompletedUpdate_Done(job, results) ==
    [job EXCEPT !.status = "done",
                !.progress = Float(1, 1),
                !.results = results,
                !.completed_at = "now",
                !.current_model = NoneStr]

\* api.py:192-198: the dict.update of a finished job
CompletedUpdate(job, results) ==
    [job EXCEPT !.status = "completed",
                !.progress = Float(1, 1),
                !.results = results,
                !.completed_at = "now",
                !.current_model = NoneStr]

\* api.py:204-208: the dict.update of a failed job
ErrorUpdate(job, e) ==
    [job EXCEPT !.status = "error",
                !.error_message = e.msg,
                !.completed_at = "now"]

\* api.py:181
Progress(completed_tests, total_tests) == IntDiv(completed_tests, total_tests)

\* benchmark_results[benchmark_id] for an id that is not a key
KeyError == [exc |-> "KeyError", msg |-> "benchmark_id"]

\* benchmark_results[benchmark_id][key] = value: the registry after the write.
\* The subscript benchmark_results[benchmark_id] raises KeyError for an id
\* that is not a key; the callers test that before they use this.
SetField(registry, benchmark_id, key, value) ==
    [registry EXCEPT ![benchmark_id] = [@ EXCEPT ![key] = value]]

\* the locals of run_benchmark_task before its first statement
NewTask(request) ==
    [pc |-> "pending",
     prompts |-> request.prompts,
     skip_models |-> request.skip_models,
     model_names |-> <<>>,
     mi |-> 1,
     pi |-> 1,
     total_tests |-> 0,
     completed_tests |-> 0,
     results |-> <<>>,
     model_results |-> <<>>,
     log |-> {},          \* the exceptions reported through logger.error
     escaped |-> NoneStr, \* the exception that left the task, if one did
     listed |-> [kind |-> "pending"],  \* history: what ollama.list answered
     outcomes |-> <<>>]   \* history: per pair, model, prompt and what run_benchmark gave

\* api.py:131-152
start_benchmark(request, cap) ==
    /\ nextId <= cap
    /\ LET benchmark_id == nextId
       IN  /\ benchmark_results' = (benchmark_id :> BenchmarkResult(benchmark_id)) @@ benchmark_results
           /\ task' = (benchmark_id :> NewTask(request)) @@ task
    /\ nextId' = nextId + 1
    /\ UNCHANGED <<deleted, ex, ag, cli>>

NotFound(op) == [op |-> op, code |-> 404, body |-> [detail |-> "Benchmark not found"]]

\* api.py:152: what POST /benchmark answers
StartResponse(benchmark_id) ==
    [op |-> "create", code |-> 200,
     body |-> [benchmark_id |-> benchmark_id, status |-> "started"]]

\* api.py:211-216: what GET /benchmark/{id} answers in the current state
GetResponse(benchmark_id) ==
    IF benchmark_id \notin DOMAIN benchmark_results THEN NotFound("get")
    ELSE [op |-> "get", code |-> 200, body |-> benchmark_results[benchmark_id]]

\* the handler reads the registry and writes nothing
get_benchmark_result(benchmark_id) ==
    /\ GetResponse(benchmark_id).code \in {200, 404}
    /\ UNCHANGED vars

\* api.py:219-221: what GET /benchmarks answers in the current state
ListResponse ==
    [op |-> "list", code |-> 200, body |-> [benchmarks |-> DOMAIN benchmark_results]]

\* the handler reads the registry and writes nothing
list_benchmarks ==
    /\ ListResponse.code = 200
    /\ UNCHANGED vars

\* del benchmark_results[benchmark_id]
Del(registry, benchmark_id) ==
    [k \in DOMAIN registry \ {benchmark_id} |-> registry[k]]

\* api.py:224-231: what DELETE /benchmark/{id} answers in the current state
DeleteResponse(benchmark_id) ==
    IF benchmark_id \notin DOMAIN benchmark_results THEN NotFound("delete")
    ELSE [op |-> "delete", code |-> 200, body |-> [message |-> "Benchmark deleted"]]

delete_benchmark(benchmark_id) ==
    /\ IF benchmark_id \notin DOMAIN benchmark_results
       THEN UNCHANGED <<benchmark_results, deleted>>
       ELSE /\ benchmark_results' = Del(benchmark_results, benchmark_id)
            /\ deleted' = deleted \cup {benchmark_id}
    /\ UNCHANGED <<nextId, task, ex, ag, cli>>

\* a handler that writes through setdefault: it re-creates a missing entry
OuterExcept_Reinsert(benchmark_id, t, e) ==
    /\ benchmark_results' =
           (benchmark_id :> ErrorUpdate(IF benchmark_id \in DOMAIN benchmark_results
                                        THEN benchmark_results[benchmark_id]
                                        ELSE BenchmarkResult(benchmark_id), e))
           @@ benchmark_results
    /\ task' = [task EXCEPT ![benchmark_id] = [t EXCEPT !.log = @ \cup {e}, !.pc = "done"]]

\* api.py:202-208: the handler of an exception e that leaves the task's try
\* block, the locals being t. Its own subscript benchmark_results[benchmark_id]
\* raises KeyError for an id that is no longer a key, and that one escapes.
OuterExcept(benchmark_id, t, e) ==
    LET t1 == [t EXCEPT !.log = @ \cup {e}]
    IN  IF benchmark_id \in DOMAIN benchmark_results
        THEN /\ benchmark_results' =
                    [benchmark_results EXCEPT ![benchmark_id] = ErrorUpdate(@, e)]
             /\ task' = [task EXCEPT ![benchmark_id] = [t1 EXCEPT !.pc = "done"]]
        ELSE /\ UNCHANGED benchmark_results
             /\ task' = [task EXCEPT ![benchmark_id] =
                            [t1 EXCEPT !.pc = "crashed", !.escaped = "KeyError"]]

\* api.py:157-165: enumerate the models, publish models_tested
TaskStart(benchmark_id, listing) ==
    /\ benchmark_id \in DOMAIN task
    /\ task[benchmark_id].pc = "pending"
    /\ LET t == [task[benchmark_id] EXCEPT !.listed = listing]
           got == get_benchmark_models(t.skip_models, listing)
       IN  IF Raised(got) THEN OuterExcept(benchmark_id, t, got)
           ELSE LET t1 == [t EXCEPT !.model_names = got.names,
                                    !.total_tests = Len(got.names) * Len(t.prompts)]
                IN  IF benchmark_id \notin DOMAIN benchmark_results
                    THEN OuterExcept(benchmark_id, t1, KeyError)
                    ELSE /\ benchmark_results' = SetField(benchmark_results, benchmark_id,
                                                          "models_tested", got.names)
                         /\ task' = [task EXCEPT ![benchmark_id] = [t1 EXCEPT !.pc = "model"]]
    /\ UNCHANGED <<nextId, deleted, ex, ag, cli>>

\* api.py:167-170: the head of the loop over the models
TaskModel(benchmark_id) ==
    /\ benchmark_id \in DOMAIN task
    /\ task[benchmark_id].pc = "model"
    /\ task[benchmark_id].mi <= Len(task[benchmark_id].model_names)
    /\ LET t == task[benchmark_id]
       IN  IF benchmark_id \notin DOMAIN benchmark_results
           THEN OuterExcept(benchmark_id, t, KeyError)
           ELSE /\ benchmark_results' = SetField(benchmark_results, benchmark_id,
                                                 "current_model", t.model_names[t.mi])
                /\ task' = [task EXCEPT ![benchmark_id] =
                               [t EXCEPT !.model_results = <<>>, !.pi = 1, !.pc = "prompt"]]
    /\ UNCHANGED <<nextId, deleted, ex, ag, cli>>

\* a loop body that puts the newest statistics first
PairStep_Prepend(t, present, reply) ==
    LET model_name == t.model_names[t.mi]
        r == run_benchmark(model_name, t.prompts[t.pi], FALSE, reply).ret
        t0 == [t EXCEPT !.pi = @ + 1,
                        !.outcomes = Append(@, [model |-> model_name,
                                                prompt |-> t.prompts[t.pi], ret |-> r])]
    IN  IF Raised(r) THEN [task |-> [t0 EXCEPT !.log = @ \cup {r}], write |-> FALSE]
        ELSE
        LET stats == IF IsNone(r) THEN None ELSE ollama_response_to_stats(r)
        IN  IF Raised(stats) THEN [task |-> [t0 EXCEPT !.log = @ \cup {stats}], write |-> FALSE]
            ELSE
            LET t1 == [t0 EXCEPT !.model_results = IF IsNone(r) THEN @ ELSE <<stats>> \o @,
                                 !.completed_tests = @ + 1]
                progress == Progress(t1.completed_tests, t1.total_tests)
            IN  IF Raised(progress)
                THEN [task |-> [t1 EXCEPT !.log = @ \cup {progress}], write |-> FALSE]
                ELSE IF ~present
                THEN [task |-> [t1 EXCEPT !.log = @ \cup {KeyError}], write |-> FALSE]
                ELSE [task |-> t1, write |-> TRUE, progress |-> progress]

\* api.py:173-187: the body of the loop over the prompts for one pair, the
\* registry holding the job's id or not. The result is the locals after the
\* pair and, when line 182 is reached and succeeds, the progress it writes.
PairStep(t, present, reply) ==
    LET model_name == t.model_names[t.mi]
        r == run_benchmark(model_name, t.prompts[t.pi], FALSE, reply).ret
        t0 == [t EXCEPT !.pi = @ + 1,
                        !.outcomes = Append(@, [model |-> model_name,
                                                prompt |-> t.prompts[t.pi], ret |-> r])]
    IN  IF Raised(r) THEN [task |-> [t0 EXCEPT !.log = @ \cup {r}], write |-> FALSE]
        ELSE
        LET stats == IF IsNone(r) THEN None ELSE ollama_response_to_stats(r)
        IN  IF Raised(stats) THEN [task |-> [t0 EXCEPT !.log = @ \cup {stats}], write |-> FALSE]
            ELSE
            LET t1 == [t0 EXCEPT !.model_results = IF IsNone(r) THEN @ ELSE Append(@, stats),
                                 !.completed_tests = @ + 1]
                progress == Progress(t1.completed_tests, t1.total_tests)
            IN  IF Raised(progress)
                THEN [task |-> [t1 EXCEPT !.log = @ \cup {progress}], write |-> FALSE]
                ELSE IF ~present
                THEN [task |-> [t1 EXCEPT !.log = @ \cup {KeyError}], write |-> FALSE]
                ELSE [task |-> t1, write |-> TRUE, progress |-> progress]

TaskPair(benchmark_id, reply) ==
    /\ benchmark_id \in DOMAIN task
    /\ task[benchmark_id].pc = "prompt"
    /\ task[benchmark_id].pi <= Len(task[benchmark_id].prompts)
    /\ LET step == PairStep(task[benchmark_id], benchmark_id \in DOMAIN benchmark_results, reply)
       IN  /\ task' = [task EXCEPT ![benchmark_id] = step.task]
           /\ IF step.write
              THEN benchmark_results' = SetField(benchmark_results, benchmark_id,
                                                 "progress", step.progress)
              ELSE UNCHANGED benchmark_results
    /\ UNCHANGED <<nextId, deleted, ex, ag, cli>>

\* a loop that also publishes the results dict to the job entry after each model
TaskModelDone_Publish(benchmark_id) ==
    /\ benchmark_id \in DOMAIN task
    /\ task[benchmark_id].pc = "prompt"
    /\ task[benchmark_id].pi > Len(task[benchmark_id].prompts)
    /\ LET t == task[benchmark_id]
           results == (t.model_names[t.mi] :> t.model_results) @@ t.results
       IN  /\ task' = [task EXCEPT ![benchmark_id] =
                          [t EXCEPT !.results = results, !.mi = @ + 1, !.pc = "model"]]
           /\ IF benchmark_id \in DOMAIN benchmark_results
              THEN benchmark_results' = SetField(benchmark_results, benchmark_id,
                                                 "results", results)
              ELSE UNCHANGED benchmark_results
    /\ UNCHANGED <<nextId, deleted, ex, ag, cli>>

\* api.py:189: results[model_name] = model_results
TaskModelDone(benchmark_id) ==
    /\ benchmark_id \in DOMAIN task
    /\ task[benchmark_id].pc = "prompt"
    /\ task[benchmark_id].pi > Len(task[benchmark_id].prompts)
    /\ LET t == task[benchmark_id]
       IN  task' = [task EXCEPT ![benchmark_id] =
                       [t EXCEPT !.results = (t.model_names[t.mi] :> t.model_results) @@ @,
                                 !.mi = @ + 1,
                                 !.pc = "model"]]
    /\ UNCHANGED <<benchmark_results, nextId, deleted, ex, ag, cli>>

\* a final update that computes progress instead of writing 1.0
TaskFinish_ComputedProgress(benchmark_id) ==
    /\ benchmark_id \in DOMAIN task
    /\ task[benchmark_id].pc = "model"
    /\ task[benchmark_id].mi > Len(task[benchmark_id].model_names)
    /\ LET t == task[benchmark_id]
           progress == Progress(t.completed_tests, t.total_tests)
       IN  IF Raised(progress) THEN OuterExcept(benchmark_id, t, progress)
           ELSE IF benchmark_id \notin DOMAIN benchmark_results
           THEN OuterExcept(benchmark_id, t, KeyError)
           ELSE /\ benchmark_results' =
                       [benchmark_results EXCEPT ![benchmark_id] =
                           [CompletedUpdate(@, t.results) EXCEPT !.progress = progress]]
                /\ task' = [task EXCEPT ![benchmark_id] = [t EXCEPT !.pc = "done"]]
    /\ UNCHANGED <<nextId, deleted, ex, ag, cli>>

\* api.py:191-200: the final update
TaskFinish(benchmark_id) ==
    /\ benchmark_id \in DOMAIN task
    /\ task[benchmark_id].pc = "model"
    /\ task[benchmark_id].mi > Len(task[benchmark_id].model_names)
    /\ LET t == task[benchmark_id]
       IN  IF benchmark_id \notin DOMAIN benchmark_results
           THEN OuterExcept(benchmark_id, t, KeyError)
           ELSE /\ benchmark_results' =
                       [benchmark_results EXCEPT ![benchmark_id] = CompletedUpdate(@, t.results)]
                /\ task' = [task EXCEPT ![benchmark_id] = [t EXCEPT !.pc = "done"]]
    /\ UNCHANGED <<nextId, deleted, ex, ag, cli>>

(***************************************************************************)
(* The collaborator: what ollama.list and ollama.chat may answer           *)
(***************************************************************************)
ChatRaises == [kind |-> "raise"]
EmptyReply == [kind |-> "value", value |-> <<>>]

\* a complete reply (the shape of test_benchmark.py:16-30); the number of
\* tokens generated depends on the prompt
GoodDict(model_name, prompt) ==
    [model |-> model_name,
     created_at |-> "now",
     message |-> [role |-> "assistant", content |-> "Test response"],
     done |-> TRUE,
     total_duration |-> 500000000,
     load_duration |-> 100000000,
     prompt_eval_count |-> 10,
     prompt_eval_duration |-> 200000000,
     eval_count |-> 10 * prompt,
     eval_duration |-> 300000000]

Without(d, key) == [k \in DOMAIN d \ {key} |-> d[k]]

\* the prompt was cached: no prompt_eval_count, no load_duration
CachedDict(model_name, prompt) ==
    Without(Without(GoodDict(model_name, prompt), "prompt_eval_count"), "load_duration")

\* nothing was generated: eval_duration is 0
ZeroDurDict(model_name, prompt) ==
    [GoodDict(model_name, prompt) EXCEPT !.eval_count = 0, !.eval_duration = 0]

\* a reply without total_duration
MalformedDict(model_name, prompt) == Without(GoodDict(model_name, prompt), "total_duration")

Value(d) == [kind |-> "value", value |-> d]

\* the answers to the non-streaming chat call, by kind
ChatReply(kind, model_name, prompt) ==
    CASE kind = "raise" -> ChatRaises
      [] kind = "empty" -> EmptyReply
      [] kind = "good" -> Value(GoodDict(model_name, prompt))
      [] kind = "cached" -> Value(CachedDict(model_name, prompt))
      [] kind = "zero_duration" -> Value(ZeroDurDict(model_name, prompt))
      [] kind = "malformed" -> Value(MalformedDict(model_name, prompt))

ListRaises == [kind |-> "raise"]
Listing(models) == [kind |-> "value", value |-> [models |-> models]]
Installed == <<[name |-> "llama2:latest"], [name |-> "mistral:7b"]>>
\* a listing whose records carry no "name" key
Nameless == <<[model |-> "llama2:latest"]>>

ModelNames == {Installed[i].name : i \in 1..Len(Installed)}

Prompts(n) == [i \in 1..n |-> i]

(***************************************************************************)
(* SpecJob: one job over up to Len(Installed) models x MaxPrompts prompts, *)
(* every answer of the collaborator, and the requests of the HTTP surface. *)
(* A request handler may run between any two steps of the background task; *)
(* the asyncio loop admits fewer interleavings (the task never awaits), so *)
(* what holds here holds of the service.                                   *)
(***************************************************************************)
Idle == [pc |-> "idle"]

InitJobs ==
    /\ benchmark_results = <<>>
    /\ nextId = 1
    /\ task = <<>>
    /\ deleted = {}
    /\ ex = Idle
    /\ ag = Idle
    /\ cli = Idle

JobRequests ==
    {[prompts |-> Prompts(n), skip_models |-> s] :
        n \in 0..MaxPrompts, s \in {{}, {Installed[1].name}, ModelNames}}

JobReplyKinds == {"raise", "empty", "good", "cached", "zero_duration", "malformed"}

JobListings == {ListRaises, Listing(Installed), Listing(Nameless), Value(<<>>)}

CurrentModel(benchmark_id) ==
    task[benchmark_id].model_names[task[benchmark_id].mi]
CurrentPrompt(benchmark_id) ==
    task[benchmark_id].prompts[task[benchmark_id].pi]

Create(requests, cap) == \E request \in requests : start_benchmark(request, cap)
Get(cap) == \E benchmark_id \in 1..cap : get_benchmark_result(benchmark_id)
Delete(cap) == \E benchmark_id \in 1..cap : delete_benchmark(benchmark_id)
Start(listings) ==
    \E benchmark_id \in DOMAIN task, listing \in listings : TaskStart(benchmark_id, listing)
Model == \E benchmark_id \in DOMAIN task : TaskModel(benchmark_id)
Pair(kinds) ==
    \E benchmark_id \in DOMAIN task :
        /\ task[benchmark_id].pc = "prompt"
        /\ task[benchmark_id].pi <= Len(task[benchmark_id].prompts)
        /\ \E kind \in kinds :
               TaskPair(benchmark_id,
                        ChatReply(kind, CurrentModel(benchmark_id), CurrentPrompt(benchmark_id)))
ModelDone == \E benchmark_id \in DOMAIN task : TaskModelDone(benchmark_id)
Finish == \E benchmark_id \in DOMAIN task : TaskFinish(benchmark_id)

NextJob ==
    \/ Create(JobRequests, 1)
    \/ Get(1)
    \/ list_benchmarks
    \/ Delete(1)
    \/ Start(JobListings)
    \/ Model
    \/ Pair(JobReplyKinds)
    \/ ModelDone
    \/ Finish

SpecJob == InitJobs /\ [][NextJob]_vars

(***************************************************************************)
(* Spec: up to MaxJobs jobs side by side, each over at most one model and  *)
(* one prompt, with the same handlers and task steps.                      *)
(***************************************************************************)
Requests == {[prompts |-> Prompts(n), skip_models |-> {}] : n \in 0..1}

ReplyKinds == {"raise", "good", "malformed"}

Listings == {ListRaises, Listing(SubSeq(Installed, 1, 1)), Listing(Nameless)}

Next ==
    \/ Create(Requests, MaxJobs)
    \/ Get(MaxJobs)
    \/ list_benchmarks
    \/ Delete(MaxJobs)
    \/ Start(Listings)
    \/ Model
    \/ Pair(ReplyKinds)
    \/ ModelDone
    \/ Finish

Spec == InitJobs /\ [][Next]_vars

(***************************************************************************)
(* SpecExec: one call of run_benchmark for every model name, prompt,       *)
(* verbose flag and answer of the collaborator.                            *)
(***************************************************************************)
\* a streamed chunk that is not the last one
Chunk(text) == [message |-> [role |-> "assistant", content |-> text], done |-> FALSE]

Stream(chunks, fails) == [kind |-> "stream", chunks |-> chunks, fails |-> fails]

\* the last chunk of test_benchmark.py:67-75: its message has no role
RolelessDict(model_name, prompt) ==
    [GoodDict(model_name, prompt) EXCEPT !.message = [content |-> "response"]]

PlainReplies(model_name, prompt) ==
    {ChatRaises, EmptyReply, Value(None),
     Value(GoodDict(model_name, prompt)), Value(CachedDict(model_name, prompt)),
     Value(ZeroDurDict(model_name, prompt)), Value(MalformedDict(model_name, prompt)),
     Value(RolelessDict(model_name, prompt))}

StreamReplies(model_name, prompt) ==
    {ChatRaises,
     Stream(<<>>, FALSE),
     Stream(<<>>, TRUE),
     Stream(<<GoodDict(model_name, prompt)>>, FALSE),
     Stream(<<Chunk("Test "), GoodDict(model_name, prompt)>>, FALSE),
     Stream(<<Chunk("Test "), CachedDict(model_name, prompt)>>, FALSE),
     Stream(<<Chunk("Test "), GoodDict(model_name, prompt)>>, TRUE),
     Stream(<<Chunk("Test "), MalformedDict(model_name, prompt)>>, FALSE),
     Stream(<<Chunk("Test "), RolelessDict(model_name, prompt)>>, FALSE),
     Stream(<<[done |-> FALSE], GoodDict(model_name, prompt)>>, FALSE),
     Stream(<<Chunk("Test "), Without(GoodDict(model_name, prompt), "message")>>, FALSE)}

ExecInputs ==
    {[pc |-> "call", model_name |-> m, prompt |-> p, verbose |-> v, reply |-> r,
      calls |-> <<>>, ret |-> None] :
        m \in ModelNames, p \in 1..2, v \in BOOLEAN, r \in {ChatRaises}}
    \cup UNION {{[pc |-> "call", model_name |-> m, prompt |-> p, verbose |-> FALSE, reply |-> r,
                  calls |-> <<>>, ret |-> None] : r \in PlainReplies(m, p)} :
                    m \in ModelNames, p \in 1..2}
    \cup UNION {{[pc |-> "call", model_name |-> m, prompt |-> p, verbose |-> TRUE, reply |-> r,
                  calls |-> <<>>, ret |-> None] : r \in StreamReplies(m, p)} :
                    m \in ModelNames, p \in 1..2}

InitExec ==
    /\ benchmark_results = <<>>
    /\ nextId = 1
    /\ task = <<>>
    /\ deleted = {}
    /\ ex \in ExecInputs
    /\ ag = Idle
    /\ cli = Idle

\* the caller runs run_benchmark and holds what it returned or raised
CallRunBenchmark ==
    /\ ex.pc = "call"
    /\ LET out == run_benchmark(ex.model_name, ex.prompt, ex.verbose, ex.reply)
       IN  ex' = [ex EXCEPT !.pc = "returned", !.calls = out.calls, !.ret = out.ret]
    /\ UNCHANGED <<benchmark_results, nextId, task, deleted, ag, cli>>

NextExec == CallRunBenchmark

SpecExec == InitExec /\ [][NextExec]_vars

(***************************************************************************)
(* SpecAgg: one call of average_stats for every list of up to MaxRuns      *)
(* entries, each a Response Record or None (what main appends).            *)
(***************************************************************************)
RunPool ==
    {None} \cup {OllamaResponse(d) : d \in {GoodDict("llama2:latest", 1),
                                            GoodDict("llama2:latest", 2),
                                            CachedDict("llama2:latest", 3),
                                            ZeroDurDict("llama2:latest", 1)}}

RunLists == UNION {[1..n -> RunPool] : n \in 0..MaxRuns}

InitAgg ==
    /\ benchmark_results = <<>>
    /\ nextId = 1
    /\ task = <<>>
    /\ deleted = {}
    /\ ex = Idle
    /\ ag \in {[pc |-> "call", responses |-> rs, out |-> None] : rs \in RunLists}
    /\ cli = Idle

CallAverageStats ==
    /\ ag.pc = "call"
    /\ ag' = [ag EXCEPT !.pc = "returned", !.out = average_stats(ag.responses)]
    /\ UNCHANGED <<benchmark_results, nextId, task, deleted, ex, cli>>

NextAgg == CallAverageStats

SpecAgg == InitAgg /\ [][NextAgg]_vars

(***************************************************************************)
(* CLI batch (benchmark.py:198-257)                                        *)
(*                                                                         *)
(* main has no try block: an exception raised by a statement of main, or   *)
(* by a function it calls, leaves main and ends the process. The locals    *)
(* of main are the record cli; position "crashed" is that ending, and      *)
(* escaped names the exception.                                            *)
(***************************************************************************)
\* the locals of main after parse_args (benchmark.py:231-238)
NewCli(verbose, skip_models, prompts) ==
    [pc |-> "start",
     verbose |-> verbose,
     skip_models |-> skip_models,
     prompts |-> prompts,
     model_names |-> <<>>,
     mi |-> 1,
     pi |-> 1,
     responses |-> <<>>,
     benchmarks |-> <<>>,   \* the dict, as its items in insertion order
     ai |-> 1,              \* position of the loop over benchmarks.items()
     escaped |-> NoneStr,   \* the exception that left main, if one did
     outcomes |-> <<>>,     \* history: per pair, model, prompt and what run_benchmark gave
     averaged |-> <<>>]     \* history: per model, what average_stats did

\* an exception e leaves main
CliCrash(t, e) == [t EXCEPT !.pc = "crashed", !.escaped = e.exc]

\* benchmarks[model_name] = responses on the items of a dict
DictSet(items, key, value) ==
    IF \E i \in 1..Len(items) : items[i].key = key
    THEN [i \in 1..Len(items) |->
             IF items[i].key = key THEN [key |-> key, value |-> value] ELSE items[i]]
    ELSE Append(items, [key |-> key, value |-> value])

\* benchmark.py:240-241
CliStart(listing) ==
    /\ cli.pc = "start"
    /\ LET got == get_benchmark_models(cli.skip_models, listing)
       IN  cli' = IF Raised(got) THEN CliCrash(cli, got)
                  ELSE [cli EXCEPT !.model_names = got.names, !.pc = "model"]
    /\ UNCHANGED <<benchmark_results, nextId, task, deleted, ex, ag>>

\* benchmark.py:243-244: the head of the loop over the models
CliModel ==
    /\ cli.pc = "model"
    /\ cli' = IF cli.mi <= Len(cli.model_names)
              THEN [cli EXCEPT !.responses = <<>>, !.pi = 1, !.pc = "prompt"]
              ELSE [cli EXCEPT !.pc = "average"]
    /\ UNCHANGED <<benchmark_results, nextId, task, deleted, ex, ag>>

\* benchmark.py:245-253: the body of the loop over the prompts for one pair
CliPair(reply) ==
    /\ cli.pc = "prompt"
    /\ cli.pi <= Len(cli.prompts)
    /\ LET model_name == cli.model_names[cli.mi]
           prompt == cli.prompts[cli.pi]
           response == run_benchmark(model_name, prompt, cli.verbose, reply).ret
           t0 == [cli EXCEPT !.outcomes = Append(@, [model |-> model_name,
                                                     prompt |-> prompt, ret |-> response])]
           t1 == [t0 EXCEPT !.responses = Append(@, response), !.pi = @ + 1]
       IN  cli' = IF Raised(response) THEN CliCrash(t0, response)
                  ELSE IF ~cli.verbose THEN t1
                  ELSE IF IsNone(response) THEN CliCrash(t1, AttributeError)
                  ELSE IF Raised(inference_stats(response))
                       THEN CliCrash(t1, inference_stats(response))
                  ELSE t1
    /\ UNCHANGED <<benchmark_results, nextId, task, deleted, ex, ag>>

\* benchmark.py:254: benchmarks[model_name] = responses
CliModelDone ==
    /\ cli.pc = "prompt"
    /\ cli.pi > Len(cli.prompts)
    /\ cli' = [cli EXCEPT !.benchmarks = DictSet(@, cli.model_names[cli.mi], cli.responses),
                          !.mi = @ + 1,
                          !.pc = "model"]
    /\ UNCHANGED <<benchmark_results, nextId, task, deleted, ex, ag>>

\* average_stats leaves by an exception, its own or that of inference_stats
AverageRaised(out) ==
    IF Raised(out) THEN out
    ELSE IF "printed" \in DOMAIN out /\ Raised(out.printed) THEN out.printed
    ELSE None

\* benchmark.py:256-257: one turn of the loop over benchmarks.items(), or its end
CliAverage ==
    /\ cli.pc = "average"
    /\ cli' = IF cli.ai > Len(cli.benchmarks) THEN [cli EXCEPT !.pc = "done"]
              ELSE LET out == average_stats(cli.benchmarks[cli.ai].value)
                       t1 == [cli EXCEPT !.averaged = Append(@, out)]
                   IN  IF Raised(AverageRaised(out)) THEN CliCrash(t1, AverageRaised(out))
                       ELSE [t1 EXCEPT !.ai = @ + 1]
    /\ UNCHANGED <<benchmark_results, nextId, task, deleted, ex, ag>>

(***************************************************************************)
(* SpecCli: one run of main for every verbose flag, up to MaxPrompts       *)
(* prompts, and every answer of the collaborator.                          *)
(***************************************************************************)
CliArgs ==
    {NewCli(v, s, Prompts(n)) :
        v \in BOOLEAN, s \in {{}, {Installed[1].name}}, n \in 0..MaxPrompts}

CliReplyKinds == {"raise", "empty", "good", "zero_duration", "malformed"}

CliListings == {ListRaises, Listing(Installed), Listing(Nameless)}

\* the answers to the chat call of main, streamed under --verbose
CliReply(kind, verbose, model_name, prompt) ==
    IF ~verbose \/ kind = "raise" THEN ChatReply(kind, model_name, prompt)
    ELSE IF kind = "empty" THEN Stream(<<>>, FALSE)
    ELSE Stream(<<Chunk("Test "), ChatReply(kind, model_name, prompt).value>>, FALSE)

InitCli ==
    /\ benchmark_results = <<>>
    /\ nextId = 1
    /\ task = <<>>
    /\ deleted = {}
    /\ ex = Idle
    /\ ag = Idle
    /\ cli \in CliArgs

CliEnumerate == \E listing \in CliListings : CliStart(listing)

CliRun ==
    /\ cli.pc = "prompt"
    /\ cli.pi <= Len(cli.prompts)
    /\ \E kind \in CliReplyKinds :
          CliPair(CliReply(kind, cli.verbose, cli.model_names[cli.mi], cli.prompts[cli.pi]))

NextCli ==
    \/ CliEnumerate
    \/ CliModel
    \/ CliRun
    \/ CliModelDone
    \/ CliAverage

SpecCli == InitCli /\ [][NextCli]_vars

(***************************************************************************)
(* Properties of the Job Tracker under Spec                                *)
(***************************************************************************)
Statuses == {"running", "completed", "error"}
Terminal == {"completed", "error"}

Finished(benchmark_id) == task[benchmark_id].pc \in {"done", "crashed"}

\* C1: a job enters the registry in status running, its status is always one
\* of running, completed, error, the only changes of status are
\* running -> completed and running -> error, and a completed or error
\* status never changes again, whatever requests and task steps interleave.
C1_StatusMachine ==
    [][\A id \in 1..MaxJobs :
          id \in DOMAIN benchmark_results' =>
             /\ benchmark_results'[id].status \in Statuses
             /\ IF id \in DOMAIN benchmark_results
                THEN \/ benchmark_results'[id].status = benchmark_results[id].status
                     \/ /\ benchmark_results[id].status = "running"
                        /\ benchmark_results'[id].status \in Terminal
                ELSE benchmark_results'[id].status = "running"]_vars

\* one job has completed and another has ended in error, both tasks over
C1_Witness ==
    \E i, j \in DOMAIN benchmark_results :
        /\ benchmark_results[i].status = "completed" /\ task[i].pc = "done"
        /\ benchmark_results[j].status = "error" /\ task[j].pc = "done"

\* the ids handed out so far that no delete has removed
Live == (1..(nextId - 1)) \ deleted

\* C7: in every reachable state list() answers exactly the ids created and
\* not deleted, get(id) and delete(id) answer not-found exactly for the ids
\* outside that set, and no deleted id is a key of the registry again.
C7_RegistryIsCreatedMinusDeleted ==
    /\ ListResponse.body.benchmarks = Live
    /\ \A id \in 1..nextId :
          /\ (GetResponse(id).code = 404) <=> (id \notin Live)
          /\ (DeleteResponse(id).code = 404) <=> (id \notin Live)
    /\ deleted \cap DOMAIN benchmark_results = {}

\* an id was deleted while its task was still to run, the task has since hit
\* the missing entry and ended, and another job is still listed
C7_Witness ==
    /\ \E id \in deleted : task[id].pc = "crashed"
    /\ Live # {}

(***************************************************************************)
(* Properties of one job under SpecJob                                     *)
(***************************************************************************)
\* run_benchmark returned a Response Record
IsRecord(r) == ~IsNone(r) /\ ~Raised(r)

\* a Response Record whose rates are defined
Convertible(r) == IsRecord(r) /\ r.prompt_eval_duration # 0 /\ r.eval_duration # 0

ModelSet(t) == {t.model_names[i] : i \in 1..Len(t.model_names)}

\* the pairs of model m processed so far, in the order they were processed
CallsFor(t, m) == SelectSeq(t.outcomes, LAMBDA o : o.model = m)

RECURSIVE StatsOfCalls(_)
\* the Derived Statistics of the calls that gave a convertible record, in order
StatsOfCalls(calls) ==
    IF calls = <<>> THEN <<>>
    ELSE (IF Convertible(Head(calls).ret)
          THEN <<ollama_response_to_stats(Head(calls).ret)>> ELSE <<>>)
         \o StatsOfCalls(Tail(calls))

StatsSoFar(t, m) == StatsOfCalls(CallsFor(t, m))

\* the job's task is over, it ran M >= 1 models x P >= 1 prompts, and every
\* call of run_benchmark returned a Response Record
AllCallsSucceeded(t) ==
    /\ t.pc = "done"
    /\ Len(t.model_names) >= 1 /\ Len(t.prompts) >= 1
    /\ Len(t.outcomes) = Len(t.model_names) * Len(t.prompts)
    /\ \A i \in 1..Len(t.outcomes) : IsRecord(t.outcomes[i].ret)

\* status completed, progress 1.0, one key per model, P statistics per key,
\* the k-th being those of the reply to the k-th prompt
FullResults(job, t) ==
    /\ job.status = "completed"
    /\ job.progress = Float(1, 1)
    /\ DOMAIN job.results = ModelSet(t)
    /\ \A m \in ModelSet(t) :
          /\ Len(job.results[m]) = Len(t.prompts)
          /\ \A k \in 1..Len(t.prompts) :
                /\ CallsFor(t, m)[k].prompt = t.prompts[k]
                /\ job.results[m][k] = ollama_response_to_stats(CallsFor(t, m)[k].ret)

\* C2 as stated: a job over M x P pairs all of whose run_benchmark calls
\* succeed ends completed, progress 1.0, with one key per model and exactly
\* P statistics per key in prompt order.
C2_AllSucceedGivesFullResults ==
    \A id \in DOMAIN benchmark_results :
        AllCallsSucceeded(task[id]) => FullResults(benchmark_results[id], task[id])

\* C2 amended: the same, for a job still in the registry all of whose calls
\* returned a record with non-zero prompt_eval_duration and eval_duration.
C2_AllConvertibleGivesFullResults ==
    \A id \in DOMAIN benchmark_results :
        (/\ AllCallsSucceeded(task[id])
         /\ \A i \in 1..Len(task[id].outcomes) : Convertible(task[id].outcomes[i].ret))
        => FullResults(benchmark_results[id], task[id])

\* 2 models x 2 prompts, four convertible replies, the final update done
C2_Witness ==
    \E id \in DOMAIN benchmark_results :
        /\ AllCallsSucceeded(task[id])
        /\ \A i \in 1..Len(task[id].outcomes) : Convertible(task[id].outcomes[i].ret)
        /\ Len(task[id].model_names) = 2 /\ Len(task[id].prompts) = 2
        /\ benchmark_results[id].status = "completed"

\* C3 as stated: a job whose enumeration failed because ollama.list raised
\* ends in status error with error_message and completed_at set and results
\* empty, and so never in status completed.
C3_ListFailureEndsInError ==
    \A id \in DOMAIN benchmark_results :
        (task[id].pc = "done" /\ task[id].listed.kind = "raise") =>
            /\ benchmark_results[id].status = "error"
            /\ benchmark_results[id].error_message # NoneStr
            /\ benchmark_results[id].completed_at # NoneStr
            /\ benchmark_results[id].results = <<>>

\* C5 as stated: while the job runs, after the k-th pair has been processed
\* (call succeeded or failed, for any reason) progress is k / total_pairs.
C5_EveryPairAdvancesProgress ==
    \A id \in DOMAIN benchmark_results :
        (benchmark_results[id].status = "running" /\ Len(task[id].outcomes) >= 1) =>
            benchmark_results[id].progress =
                Float(Len(task[id].outcomes),
                      Len(task[id].model_names) * Len(task[id].prompts))

\* the results dict of a job entry, read per model
ResultsOf(job, m) == IF m \in DOMAIN job.results THEN job.results[m] ELSE <<>>

\* C6 as stated: while the job runs, the results field of its entry holds,
\* per model and in prompt order, exactly the statistics of the pairs that
\* have succeeded so far.
C6_EntryHoldsSuccessesWhileRunning ==
    \A id \in DOMAIN benchmark_results :
        benchmark_results[id].status = "running" =>
            \A m \in ModelSet(task[id]) :
                ResultsOf(benchmark_results[id], m) = StatsSoFar(task[id], m)

\* C6 amended: the statistics of the pairs that have succeeded so far are in
\* the task's own lists (model_results for the model in progress, results
\* for the models done); the results field of the entry is empty while the
\* job runs and holds them, per model and in prompt order, once the final
\* update has made the job completed.
C6_ResultsPublishedOnCompletion ==
    /\ \A id \in DOMAIN task :
          /\ task[id].pc = "prompt" =>
                task[id].model_results = StatsSoFar(task[id], CurrentModel(id))
          /\ \A m \in DOMAIN task[id].results :
                task[id].results[m] = StatsSoFar(task[id], m)
    /\ \A id \in DOMAIN benchmark_results :
          /\ benchmark_results[id].status = "running" =>
                benchmark_results[id].results = <<>>
          /\ benchmark_results[id].status = "completed" =>
                /\ DOMAIN benchmark_results[id].results = ModelSet(task[id])
                /\ \A m \in ModelSet(task[id]) :
                      benchmark_results[id].results[m] = StatsSoFar(task[id], m)

\* a running job with a model done and a pair of the next model succeeded
C6_Witness ==
    \E id \in DOMAIN benchmark_results :
        /\ benchmark_results[id].status = "running"
        /\ task[id].pc = "prompt"
        /\ task[id].results # <<>>
        /\ task[id].model_results # <<>>
        /\ \E m \in DOMAIN task[id].results : task[id].results[m] # <<>>

\* the enumerator returned, and models x prompts is empty
EmptyMatrix(t) ==
    /\ t.pc # "pending"
    /\ ~Raised(get_benchmark_models(t.skip_models, t.listed))
    /\ Len(t.model_names) * Len(t.prompts) = 0

ZeroDivisions(t) == {e \in t.log : e.exc = "ZeroDivisionError"}

\* C10 as stated: a task over an empty matrix divides by zero in its
\* progress computation.
C10_EmptyMatrixDividesByZero ==
    \A id \in DOMAIN benchmark_results :
        (task[id].pc = "done" /\ EmptyMatrix(task[id])) => ZeroDivisions(task[id]) # {}

\* C10 amended: over an empty matrix the progress computation is never
\* reached: no pair is processed, no division by zero is raised, and a job
\* still in the registry ends completed with progress 1.0; nor does the
\* division completed_tests / total_tests raise for any other matrix.
C10_EmptyMatrixCompletes ==
    \A id \in DOMAIN task :
        /\ \A e \in task[id].log : e.msg # "division by zero"
        /\ EmptyMatrix(task[id]) =>
              /\ ZeroDivisions(task[id]) = {}
              /\ task[id].outcomes = <<>>
              /\ (task[id].pc = "done" /\ id \in DOMAIN benchmark_results) =>
                    /\ benchmark_results[id].status = "completed"
                    /\ benchmark_results[id].progress = Float(1, 1)
                    /\ benchmark_results[id].error_message = NoneStr

\* a finished job over one model and no prompt, still in the registry
C10_Witness ==
    \E id \in DOMAIN benchmark_results :
        /\ task[id].pc = "done"
        /\ EmptyMatrix(task[id])
        /\ Len(task[id].model_names) >= 1
        /\ benchmark_results[id].status = "completed"

\* C11 as stated: however delete(id) interleaves with the steps of the job's
\* background task, no exception leaves the task: a failure it meets, the
\* write to a deleted entry included, is absorbed by the pair's handler or
\* ends in the handler of the job-level error transition.
C11_NoExceptionEscapesTask ==
    \A id \in DOMAIN task :
        id \in deleted => (task[id].escaped = NoneStr /\ task[id].pc # "crashed")

(***************************************************************************)
(* Properties of run_benchmark under SpecExec                              *)
(***************************************************************************)
\* the element run_benchmark is left with when the collaborator answered
LastElement(reply) ==
    IF reply.kind = "value" THEN reply.value
    ELSE IF reply.chunks = <<>> THEN None
    ELSE reply.chunks[Len(reply.chunks)]

\* the collaborator call failed: it raised, it gave no reply at all, or its
\* reply cannot be coerced into a Response Record
CollaboratorFailed(reply) ==
    \/ reply.kind = "raise"
    \/ reply.kind = "stream" /\ reply.fails
    \/ Falsy(LastElement(reply))
    \/ Raised(OllamaResponse(LastElement(reply)))

\* C4 as stated: when the collaborator call fails, run_benchmark returns
\* None and raises nothing, for every model, prompt and streaming flag.
C4_FailureGivesNoResult ==
    (ex.pc = "returned" /\ CollaboratorFailed(ex.reply)) => IsNone(ex.ret)

\* C8 as stated: run_benchmark calls ollama.chat exactly once, with the
\* model name, one user-role message holding the prompt, and a stream
\* argument equal to the verbose flag.
C8_ChatCalledOnceWithStreamFlag ==
    ex.pc = "returned" =>
        ex.calls = <<[model |-> ex.model_name,
                      messages |-> <<[role |-> "user", content |-> ex.prompt]>>,
                      stream |-> ex.verbose]>>

(***************************************************************************)
(* Properties of main under SpecCli                                        *)
(***************************************************************************)
\* a call of run_benchmark of this batch returned no result, and every other
\* call returned a Response Record whose rates are defined
NoResultOnly(t) ==
    /\ \E i \in 1..Len(t.outcomes) : IsNone(t.outcomes[i].ret)
    /\ \A i \in 1..Len(t.outcomes) :
          IsNone(t.outcomes[i].ret) \/ Convertible(t.outcomes[i].ret)

\* C12 as stated: a run_benchmark call of the CLI batch that returns no
\* result is not fatal to the batch: no exception leaves main, the remaining
\* model x prompt pairs are run, and average_stats completes without raising
\* for every model.
C12_NoResultIsNotFatal ==
    NoResultOnly(cli) =>
        /\ cli.pc # "crashed"
        /\ cli.escaped = NoneStr
        /\ \A i \in 1..Len(cli.averaged) : ~Raised(AverageRaised(cli.averaged[i]))
        /\ cli.pc \in {"average", "done"} =>
              Len(cli.outcomes) = Len(cli.model_names) * Len(cli.prompts)

(***************************************************************************)
(* Properties of average_stats under SpecAgg                               *)
(***************************************************************************)
SummedFields == {"total_duration", "load_duration", "prompt_eval_count",
                 "prompt_eval_duration", "eval_count", "eval_duration"}

\* responses[1][field] + ... + responses[n][field]
FieldTotal(responses, field) ==
    LET S[i \in 0..Len(responses)] ==
            IF i = 0 THEN 0 ELSE S[i - 1] + responses[i][field]
    IN  S[Len(responses)]

\* the list handed to average_stats is non-empty and holds Response Records
RecordsOnly(responses) ==
    /\ Len(responses) >= 1
    /\ \A i \in 1..Len(responses) : IsRecord(responses[i])

\* the total rate of a run of inference_stats, or that it raised
TotalRate(printed) == IF Raised(printed) THEN printed ELSE printed.total_ts

\* C9: for a non-empty list of Response Records the synthetic record has each
\* of the six counters equal to the sum of that counter over the list; for one
\* record repeated N times its total_duration is N times the single value and
\* the total rate printed for it is the total rate of the single record (as
\* exact fractions; both computations raise when the durations are zero).
C9_SyntheticIsFieldwiseSum ==
    (ag.pc = "returned" /\ RecordsOnly(ag.responses)) =>
        /\ "res" \in DOMAIN ag.out
        /\ \A f \in SummedFields : ag.out.res[f] = FieldTotal(ag.responses, f)
        /\ (\A i \in 1..Len(ag.responses) : ag.responses[i] = ag.responses[1]) =>
              /\ ag.out.res.total_duration =
                    Len(ag.responses) * ag.responses[1].total_duration
              /\ TotalRate(ag.out.printed) = TotalRate(inference_stats(ag.responses[1]))

\* one convertible record repeated at least three times, averaged
C9_Witness ==
    /\ ag.pc = "returned"
    /\ RecordsOnly(ag.responses)
    /\ Len(ag.responses) >= 3
    /\ \A i \in 1..Len(ag.responses) : ag.responses[i] = ag.responses[1]
    /\ Convertible(ag.responses[1])
    /\ ~Raised(ag.out.printed)

====
